---- MODULE Spec2Model ----
(***************************************************************************)
(* Topology-aware layout engine of azure_drawio_mcp_server:                *)
(*   topology_layout.py   build_adjacency_graph, assign_layers,            *)
(*                        detect_hubs, optimize_group_order,               *)
(*                        calculate_topology_layout                        *)
(*   drawio_generator.py  _calculate_layout and the edge classification /  *)
(*                        spreading passes of generate_drawio_diagram      *)
(*                                                                         *)
(* Python dicts are functions whose DOMAIN is the key set; Optional values *)
(* are sequences of length 0 (None) or 1; lists are sequences.             *)
(***************************************************************************)
EXTENDS Integers, Sequences, FiniteSets, TLC

VARIABLES
    resources,        \* request.resources: Seq of [id, group, x, y]
    groups,           \* request.groups: Seq of group ids
    connections,      \* request.connections: Seq of [source, target]
    threshold,        \* detect_hubs: the threshold argument
    prev_layer_order, \* order_within_layer: Optional list of ids
    pc,               \* position of the computation
    graph,            \* result of build_adjacency_graph
    sources,          \* assign_layers: list of source ids
    layers,           \* assign_layers: dict id -> layer
    queue,            \* assign_layers: the BFS deque
    hubs,             \* detect_hubs result
    ordered_groups,   \* optimize_group_order result
    group_resources,  \* per-group ordered resource lists
    layer_order,      \* order_within_layer result
    positions,        \* _calculate_layout: dict id -> <<x, y>>
    group_bounds,     \* _calculate_layout: dict group id -> <<x, y, w, h>>
    absolute_positions, \* generate_drawio_diagram: dict id -> <<x, y>>
    connection_directions, \* per connection <<exit_dir, entry_dir>>
    outgoing_by_direction, \* dict <<id, side>> -> list of connection indices
    incoming_by_direction, \* dict <<id, side>> -> list of connection indices
    edges,            \* drawn edges: Seq of records
    validation,       \* generate_drawio_diagram: result of validate_diagram_request
    log_warnings,     \* logger.warning calls of the edge pass: connection indices
    file_written,     \* whether file.write() was called
    status            \* DiagramResponse.status, "" before the return

vars == <<resources, groups, connections, threshold, prev_layer_order, pc,
          graph, sources, layers, queue, hubs, ordered_groups,
          group_resources, layer_order, positions, group_bounds,
          absolute_positions, connection_directions, outgoing_by_direction,
          incoming_by_direction, edges,
          validation, log_warnings, file_written, status>>

graphVars == <<graph, sources, layers, queue>>
inputVars == <<resources, groups, connections, threshold, prev_layer_order>>
topoVars == <<hubs, ordered_groups, group_resources, layer_order>>
gridVars == <<positions, group_bounds>>
edgeVars == <<absolute_positions, connection_directions,
              outgoing_by_direction, incoming_by_direction, edges>>

reportVars == <<validation, log_warnings, file_written, status>>

----------------------------------------------------------------------------
(* Bounds of the model *)

MaxRes == 3
MaxConns == 2
MaxLayer == 7

(* Program constants *)

HUB_CONNECTIVITY_THRESHOLD == 3

----------------------------------------------------------------------------
(* Python values *)

None == <<>>
Some(v) == <<v>>

EmptyDict == [k \in {} |-> 0]

Put(d, k, v) == [x \in (DOMAIN d) \cup {k} |-> IF x = k THEN v ELSE d[x]]

Get(d, k, default) == IF k \in DOMAIN d THEN d[k] ELSE default

Resource(id, group, x, y) == [id |-> id, group |-> group, x |-> x, y |-> y]

Connection(s, t) == [source |-> s, target |-> t]

ResourceIds(rs) == {rs[i].id : i \in DOMAIN rs}

----------------------------------------------------------------------------
(* topology_layout.build_adjacency_graph *)

EmptyGraph ==
    [outgoing |-> EmptyDict, incoming |-> EmptyDict,
     out_degree |-> EmptyDict, in_degree |-> EmptyDict]

\* add_connection without lines 41-45
add_connection_no_ensure(g, conn) ==
    [outgoing |-> Put(g.outgoing, conn.source,
                      Append(Get(g.outgoing, conn.source, <<>>), conn.target)),
     incoming |-> Put(g.incoming, conn.target,
                      Append(Get(g.incoming, conn.target, <<>>), conn.source)),
     out_degree |-> Put(g.out_degree, conn.source, Get(g.out_degree, conn.source, 0) + 1),
     in_degree |-> Put(g.in_degree, conn.target, Get(g.in_degree, conn.target, 0) + 1)]

\* add_connection with sets in place of lists: a connection already
\* recorded is not recorded again
add_connection_once(g, conn) ==
    IF conn.source \in DOMAIN g.outgoing
       /\ \E k \in DOMAIN g.outgoing[conn.source] : g.outgoing[conn.source][k] = conn.target
    THEN g
    ELSE add_connection_no_ensure(
             [g EXCEPT !.out_degree = IF conn.target \in DOMAIN @ THEN @ ELSE Put(@, conn.target, 0),
                       !.in_degree = IF conn.source \in DOMAIN @ THEN @ ELSE Put(@, conn.source, 0)],
             conn)

\* one iteration of the loop over the connections (defaultdict accesses
\* create the key)
add_connection(g, conn) ==
    LET og == Put(g.outgoing, conn.source,
                  Append(Get(g.outgoing, conn.source, <<>>), conn.target))
        ic == Put(g.incoming, conn.target,
                  Append(Get(g.incoming, conn.target, <<>>), conn.source))
        od == Put(g.out_degree, conn.source, Get(g.out_degree, conn.source, 0) + 1)
        id == Put(g.in_degree, conn.target, Get(g.in_degree, conn.target, 0) + 1)
        od2 == IF conn.target \notin DOMAIN od THEN Put(od, conn.target, 0) ELSE od
        id2 == IF conn.source \notin DOMAIN id THEN Put(id, conn.source, 0) ELSE id
    IN  [outgoing |-> og, incoming |-> ic, out_degree |-> od2, in_degree |-> id2]

RECURSIVE build_loop(_, _, _)
build_loop(conns, i, g) ==
    IF i > Len(conns) THEN g
    ELSE build_loop(conns, i + 1, add_connection(g, conns[i]))

build_adjacency_graph(conns) == build_loop(conns, 1, EmptyGraph)

----------------------------------------------------------------------------
(* topology_layout.assign_layers *)

\* is_source without the test of lines 75-77: any incoming edge disqualifies
is_source_any_incoming(rid, incoming, resource_ids) ==
    IF rid \notin DOMAIN incoming THEN "yes"
    ELSE IF incoming[rid] = <<>> THEN "yes" ELSE "no"

\* is_source without the membership test of line 71
is_source_unguarded(rid, incoming, resource_ids) ==
    IF rid \notin DOMAIN incoming THEN "KeyError"
    ELSE IF incoming[rid] = <<>> THEN "yes"
    ELSE IF \A i \in DOMAIN incoming[rid] : incoming[rid][i] \notin resource_ids
         THEN "yes" ELSE "no"

\* the source test of one resource: "yes", "no", or "KeyError" when the
\* lookup incoming[r.id] misses
is_source(rid, incoming, resource_ids) ==
    IF rid \notin DOMAIN incoming THEN "yes"
    ELSE IF incoming[rid] = <<>> THEN "yes"
    ELSE IF \A i \in DOMAIN incoming[rid] : incoming[rid][i] \notin resource_ids
         THEN "yes" ELSE "no"

RECURSIVE find_sources(_, _, _, _)
find_sources(rs, i, incoming, resource_ids) ==
    IF i > Len(rs) THEN <<>>
    ELSE LET rest == find_sources(rs, i + 1, incoming, resource_ids)
         IN  IF is_source(rs[i].id, incoming, resource_ids) = "yes"
             THEN <<rs[i].id>> \o rest ELSE rest

source_lookup_fails(rs, incoming, resource_ids) ==
    \E i \in DOMAIN rs : is_source(rs[i].id, incoming, resource_ids) = "KeyError"

\* layers[source] = 0 for every source, in order
RECURSIVE seed_layers(_, _, _)
seed_layers(srcs, i, ls) ==
    IF i > Len(srcs) THEN ls ELSE seed_layers(srcs, i + 1, Put(ls, srcs[i], 0))

\* in_resource_set without the membership test of line 94
in_resource_set_any(target, resource_ids) == TRUE

\* whether the BFS follows the edge to target
in_resource_set(target, resource_ids) == target \in resource_ids

\* visit_target without the update of lines 101-105
visit_target_first_visit_only(target, current_layer, resource_ids, st) ==
    IF ~in_resource_set(target, resource_ids) THEN st
    ELSE IF target \notin DOMAIN st.layers
         THEN [layers |-> Put(st.layers, target, current_layer + 1),
               queue |-> Append(st.queue, target)]
    ELSE st

\* lines 93-105: what one target of the dequeued node does to
\* st = [layers, queue]
visit_target(target, current_layer, resource_ids, st) ==
    LET new_layer == current_layer + 1
    IN  IF ~in_resource_set(target, resource_ids) THEN st
        ELSE IF target \notin DOMAIN st.layers
             THEN [layers |-> Put(st.layers, target, new_layer),
                   queue |-> Append(st.queue, target)]
        ELSE IF new_layer > st.layers[target]
             THEN [layers |-> Put(st.layers, target, new_layer),
                   queue |-> Append(st.queue, target)]
        ELSE st

\* the for loop over outgoing.get(node, []) of one while iteration
RECURSIVE visit_targets(_, _, _, _, _)
visit_targets(targets, i, current_layer, resource_ids, st) ==
    IF i > Len(targets) THEN st
    ELSE visit_targets(targets, i + 1, current_layer, resource_ids,
                       visit_target(targets[i], current_layer, resource_ids, st))

\* default_layers without lines 108-110
default_layers_none(rs, i, ls) == ls

\* the final loop: resources not reached get layer 0
RECURSIVE default_layers(_, _, _)
default_layers(rs, i, ls) ==
    IF i > Len(rs) THEN ls
    ELSE default_layers(rs, i + 1,
            IF rs[i].id \notin DOMAIN ls THEN Put(ls, rs[i].id, 0) ELSE ls)

\* lines 65-85: graph, sources, seeding of the queue
AssignLayersBegin ==
    /\ pc = "assign_layers"
    /\ LET g == build_adjacency_graph(connections)
           ids == ResourceIds(resources)
       IN  /\ graph' = g
           /\ IF source_lookup_fails(resources, g.incoming, ids)
              THEN /\ pc' = "KeyError in assign_layers"
                   /\ UNCHANGED <<sources, layers, queue>>
              ELSE LET srcs == find_sources(resources, 1, g.incoming, ids)
                   IN  /\ sources' = srcs
                       /\ layers' = seed_layers(srcs, 1, EmptyDict)
                       /\ queue' = srcs
                       /\ pc' = "bfs"
    /\ UNCHANGED <<inputVars, reportVars, topoVars, gridVars, edgeVars>>

\* lines 88-105: one iteration of the while loop
BfsStep ==
    /\ pc = "bfs"
    /\ queue # <<>>
    /\ LET node == Head(queue)
       IN  IF node \notin DOMAIN layers
           THEN /\ pc' = "KeyError in assign_layers"
                /\ UNCHANGED <<layers, queue>>
           ELSE LET st == visit_targets(Get(graph.outgoing, node, <<>>), 1,
                                        layers[node], ResourceIds(resources),
                                        [layers |-> layers, queue |-> Tail(queue)])
                IN  /\ \A k \in DOMAIN st.layers : st.layers[k] <= MaxLayer
                    /\ layers' = st.layers
                    /\ queue' = st.queue
                    /\ pc' = "bfs"
    /\ UNCHANGED <<inputVars, reportVars, graph, sources, topoVars, gridVars, edgeVars>>

\* lines 107-112: the queue is empty, default layers, return
AssignLayersEnd ==
    /\ pc = "bfs"
    /\ queue = <<>>
    /\ layers' = default_layers(resources, 1, layers)
    /\ pc' = "layers_done"
    /\ UNCHANGED <<inputVars, reportVars, graph, sources, queue, topoVars, gridVars, edgeVars>>

----------------------------------------------------------------------------
(* Sorting: Python's sorted() is stable; a key is a tuple of numbers, each *)
(* number a fraction <<numerator, denominator>> with denominator > 0       *)

Int2Key(n) == <<n, 1>>

NumLess(p, q) == p[1] * q[2] < q[1] * p[2]

RECURSIVE KeyLessFrom(_, _, _)
KeyLessFrom(k1, k2, i) ==
    IF i > Len(k1) \/ i > Len(k2) THEN Len(k1) < Len(k2)
    ELSE IF NumLess(k1[i], k2[i]) THEN TRUE
    ELSE IF NumLess(k2[i], k1[i]) THEN FALSE
    ELSE KeyLessFrom(k1, k2, i + 1)

KeyLess(k1, k2) == KeyLessFrom(k1, k2, 1)

\* idx: indices already sorted; i goes behind every index whose key is not
\* greater than its own
InsertIndex(idx, i, keys) ==
    LET before == {j \in DOMAIN idx : ~KeyLess(keys[i], keys[idx[j]])}
        p == IF before = {} THEN 0 ELSE CHOOSE m \in before : \A x \in before : x <= m
    IN  SubSeq(idx, 1, p) \o <<i>> \o SubSeq(idx, p + 1, Len(idx))

RECURSIVE SortIndices(_, _, _)
SortIndices(keys, i, idx) ==
    IF i > Len(keys) THEN idx
    ELSE SortIndices(keys, i + 1, InsertIndex(idx, i, keys))

sorted(items, keys) ==
    LET idx == SortIndices(keys, 1, <<>>)
    IN  [j \in DOMAIN items |-> items[idx[j]]]

----------------------------------------------------------------------------
(* topology_layout: connectivity, hubs, group order, per-group order *)

\* calculate_connectivity_score without in_count
calculate_connectivity_score_out_only(rid, outgoing, incoming) ==
    Len(IF rid \in DOMAIN outgoing THEN outgoing[rid] ELSE <<>>)

calculate_connectivity_score(rid, outgoing, incoming) ==
    Len(Get(outgoing, rid, <<>>)) + Len(Get(incoming, rid, <<>>))

detect_hubs(rs, conns, thr) ==
    LET g == build_adjacency_graph(conns)
        score(rid) == calculate_connectivity_score(rid, g.outgoing, g.incoming)
        hubIds == {rid \in ResourceIds(rs) : score(rid) >= thr}
    IN  [rid \in hubIds |-> score(rid)]

\* members_of without the test of the group field
members_of_everyone(rs, key) == rs

\* the resources of rs whose group field equals key, in list order
members_of(rs, key) == SelectSeq(rs, LAMBDA r : r.group = key)

RECURSIVE SumSeq(_, _)
SumSeq(s, i) == IF i > Len(s) THEN 0 ELSE s[i] + SumSeq(s, i + 1)

\* optimize_group_order without the early return and sorting by the number
\* of members
optimize_group_order_by_count(gs, rs, conns, ls) ==
    sorted(gs, [i \in DOMAIN gs |-> <<Int2Key(Len(SelectSeq(rs, LAMBDA r : r.group = <<gs[i]>>)))>>])

\* optimize_group_order without the sort of line 404
optimize_group_order_unsorted(gs, rs, conns, ls) == gs

\* group_layer_sum / group_resource_count of one group id; ls is the result
\* of assign_layers(resources, connections)
group_avg_layer(gid, rs, ls) ==
    LET mem == members_of(rs, Some(gid))
        count == Len(mem)
        total == SumSeq([i \in DOMAIN mem |-> Get(ls, mem[i].id, 0)], 1)
    IN  IF count > 0 THEN <<total, count>> ELSE <<0, 1>>

optimize_group_order(gs, rs, conns, ls) ==
    IF gs = <<>> \/ conns = <<>> THEN gs
    ELSE sorted(gs, [i \in DOMAIN gs |-> <<group_avg_layer(gs[i], rs, ls)>>])

Reverse(s) == [k \in 1..Len(s) |-> s[Len(s) + 1 - k]]

\* prev_layer_order.index(v), counted from 0, for v in prev_layer_order
list_index(list, v) ==
    (CHOOSE j \in DOMAIN list :
        list[j] = v /\ \A k \in DOMAIN list : list[k] = v => j <= k) - 1

\* lines 323-325: the positions in the previous layer of the sources of the
\* incoming connections of rid
connected_positions(rid, incoming, prev) ==
    LET inc == Get(incoming, rid, <<>>)
        hits == SelectSeq(inc, LAMBDA src : \E j \in DOMAIN prev : prev[j] = src)
    IN  [k \in DOMAIN hits |-> list_index(prev, hits[k])]

\* barycenter without the division by the number of positions
barycenter_sum(r, outgoing, incoming, prev) ==
    LET cp == connected_positions(r.id, incoming, prev)
    IN  IF cp # <<>> THEN Int2Key(SumSeq(cp, 1))
        ELSE Int2Key(calculate_connectivity_score(r.id, outgoing, incoming) * (0 - 1))

\* lines 317-331: the sort key of the barycenter method
barycenter(r, outgoing, incoming, prev) ==
    LET cp == connected_positions(r.id, incoming, prev)
    IN  IF cp # <<>> THEN <<SumSeq(cp, 1), Len(cp)>>
        ELSE Int2Key(calculate_connectivity_score(r.id, outgoing, incoming) * (0 - 1))

\* lines 341-351 with the right list left out
middle_out_without_right(scored) ==
    LET left == [k \in 1..(Len(scored) \div 2) |-> scored[2 * k]]
    IN  Reverse(left) \o <<scored[1]>>

\* lines 341-351 without the alternation: the sorted list as it is
middle_out_plain(scored) == scored

\* lines 341-351: the first of a non-empty list in the middle, the others
\* alternately to its left and to its right
middle_out(scored) ==
    LET n == Len(scored)
        left == [k \in 1..(n \div 2) |-> scored[2 * k]]
        right == [k \in 1..((n - 1) \div 2) |-> scored[2 * k + 1]]
    IN  Reverse(left) \o <<scored[1]>> \o right

\* prev is None or Some(list of ids)
order_within_layer(layer_resources, outgoing, incoming, prev) ==
    IF layer_resources = <<>> THEN <<>>
    ELSE IF prev # None /\ Len(prev[1]) > 0
    THEN sorted(layer_resources,
                [i \in DOMAIN layer_resources |->
                    <<barycenter(layer_resources[i], outgoing, incoming, prev[1])>>])
    ELSE middle_out(
            sorted(layer_resources,
                   [i \in DOMAIN layer_resources |->
                       <<Int2Key(0 - calculate_connectivity_score(
                                        layer_resources[i].id, outgoing, incoming))>>]))

\* a call of order_within_layer with the lists of build_adjacency_graph
OrderWithinLayer ==
    /\ pc = "order_within_layer"
    /\ graph' = build_adjacency_graph(connections)
    /\ layer_order' = order_within_layer(resources, graph'.outgoing, graph'.incoming,
                                         prev_layer_order)
    /\ pc' = "order_within_layer returned"
    /\ UNCHANGED <<inputVars, reportVars, sources, layers, queue, hubs, ordered_groups,
                   group_resources, gridVars, edgeVars>>

\* a call of detect_hubs(resources, connections, threshold)
DetectHubs ==
    /\ pc = "detect_hubs"
    /\ hubs' = detect_hubs(resources, connections, threshold)
    /\ pc' = "detect_hubs returned"
    /\ UNCHANGED <<inputVars, reportVars, graphVars, ordered_groups, group_resources,
                   layer_order, gridVars, edgeVars>>

\* a call of optimize_group_order, lines 376-379: the early return, or the
\* call of assign_layers
OptimizeGroupOrderBegin ==
    /\ pc = "optimize_group_order"
    /\ IF groups = <<>> \/ connections = <<>>
       THEN /\ ordered_groups' = optimize_group_order(groups, resources, connections,
                                                      EmptyDict)
            /\ pc' = "optimize_group_order returned"
       ELSE /\ pc' = "assign_layers"
            /\ UNCHANGED ordered_groups
    /\ UNCHANGED <<inputVars, reportVars, graphVars, hubs, group_resources, layer_order,
                   gridVars, edgeVars>>

\* lines 380-404, once assign_layers has returned
OptimizeGroupOrderEnd ==
    /\ pc = "layers_done"
    /\ ordered_groups' = optimize_group_order(groups, resources, connections, layers)
    /\ pc' = "optimize_group_order returned"
    /\ UNCHANGED <<inputVars, reportVars, graphVars, hubs, group_resources, layer_order,
                   gridVars, edgeVars>>

\* topology_key without the hub component
topology_key_no_hub(r, hs, ls, g) ==
    << Int2Key(Get(ls, r.id, 0)),
       Int2Key(0 - calculate_connectivity_score(r.id, g.outgoing, g.incoming)) >>

\* the sort key of calculate_topology_layout: hubs first, then layer, then
\* connectivity descending
topology_key(r, hs, ls, g) ==
    << Int2Key(IF r.id \in DOMAIN hs THEN 0 ELSE 1),
       Int2Key(Get(ls, r.id, 0)),
       Int2Key(0 - calculate_connectivity_score(r.id, g.outgoing, g.incoming)) >>

sort_group(rs, hs, ls, g) ==
    sorted(rs, [i \in DOMAIN rs |-> topology_key(rs[i], hs, ls, g)])

\* group_resources of calculate_topology_layout: an entry for every listed
\* group with members, and None for the ungrouped resources
topology_group_resources(og, rs, hs, ls, g) ==
    LET listed == {Some(og[i]) : i \in DOMAIN og}
        keys == {k \in listed \cup {None} : members_of(rs, k) # <<>>}
    IN  [k \in keys |-> sort_group(members_of(rs, k), hs, ls, g)]

\* group_resources of _calculate_layout without connections: insertion by
\* r.group
plain_group_resources(rs) ==
    [k \in {rs[i].group : i \in DOMAIN rs} |-> members_of(rs, k)]

\* _calculate_layout lines 136-146
CalculateLayoutBegin ==
    /\ pc = "calculate_layout"
    /\ IF connections # <<>>
       THEN /\ pc' = "assign_layers"
            /\ UNCHANGED topoVars
       ELSE /\ ordered_groups' = groups
            /\ group_resources' = plain_group_resources(resources)
            /\ UNCHANGED <<hubs, layer_order>>
            /\ pc' = "grid"
    /\ UNCHANGED <<inputVars, reportVars, graphVars, gridVars, edgeVars>>

\* calculate_topology_layout lines 432-473 (lines 426-429 are the graph
\* and the layers computed by assign_layers)
TopologyLayout ==
    /\ pc = "layers_done"
    /\ LET hs == detect_hubs(resources, connections, HUB_CONNECTIVITY_THRESHOLD)
           og == optimize_group_order(groups, resources, connections, layers)
       IN  /\ hubs' = hs
           /\ ordered_groups' = og
           /\ group_resources' = topology_group_resources(og, resources, hs, layers, graph)
    /\ layer_order' = layer_order
    /\ pc' = "grid"
    /\ UNCHANGED <<inputVars, reportVars, graphVars, gridVars, edgeVars>>

----------------------------------------------------------------------------
(* drawio_generator: page and grid constants *)

A4_WIDTH == 1123
PAGE_MARGIN == 40
CANVAS_WIDTH == A4_WIDTH - (PAGE_MARGIN * 2)
ICON_CELL_WIDTH == 110
ICON_CELL_HEIGHT == 85
GROUP_INTERNAL_PAD == 25
GROUP_TITLE_HEIGHT == 24
GROUP_GAP == 30
START_X == PAGE_MARGIN
START_Y == PAGE_MARGIN
INSTRUCTIONS_HEIGHT == 35
MAX_GROUP_COLS == 3

\* max() that forgets its first argument
Max2_second(a, b) == b

Max2(a, b) == IF a >= b THEN a ELSE b

\* min() that returns its second argument
Min2_second(a, b) == b

Min2(a, b) == IF a <= b THEN a ELSE b

\* a row that never counts as full
exceeds_canvas_never(x, width) == FALSE

\* lines 170 and 206: whether a cell or group of this width, put at x, would
\* pass the right end of the canvas
exceeds_canvas(x, width) == x + width > CANVAS_WIDTH + PAGE_MARGIN

\* grid_cell that keeps every member in the first row
grid_cell_first_row(i, cols) == <<i % cols, 0>>

\* lines 217-218: <<col, row>> of the i-th member of a group, i counted
\* from 0
grid_cell(i, cols) == <<i % cols, i \div cols>>

\* resource.x is not None and resource.y is not None
has_explicit_position(r) == r.x # None /\ r.y # None

\* the position stored for a resource that carries an explicit (x, y)
explicit_position(r) == <<r.x[1], r.y[1]>>

\* lines 165-176: the loop over the ungrouped resources;
\* st = [x, y, row_max_height, positions]
RECURSIVE place_ungrouped(_, _, _)
place_ungrouped(rs, i, st) ==
    IF i > Len(rs) THEN st
    ELSE LET r == rs[i]
             wrap == exceeds_canvas(st.x, ICON_CELL_WIDTH)
             cx == IF wrap THEN START_X ELSE st.x
             cy == IF wrap THEN st.y + ICON_CELL_HEIGHT ELSE st.y
             st2 == IF has_explicit_position(r)
                    THEN [st EXCEPT !.positions = Put(@, r.id, explicit_position(r))]
                    ELSE [x |-> cx + ICON_CELL_WIDTH, y |-> cy,
                          row_max_height |-> Max2(st.row_max_height, ICON_CELL_HEIGHT),
                          positions |-> Put(st.positions, r.id, <<cx, cy>>)]
         IN  place_ungrouped(rs, i + 1, st2)

\* lines 213-221: positions of the members of one group, relative to the
\* group's origin
RECURSIVE place_members(_, _, _, _)
place_members(rs, i, cols, pos) ==
    IF i > Len(rs) THEN pos
    ELSE LET r == rs[i]
             col == grid_cell(i - 1, cols)[1]
             row == grid_cell(i - 1, cols)[2]
             rel_x == GROUP_INTERNAL_PAD + col * ICON_CELL_WIDTH
             rel_y == GROUP_TITLE_HEIGHT + GROUP_INTERNAL_PAD + row * ICON_CELL_HEIGHT
         IN  place_members(rs, i + 1, cols,
                 Put(pos, r.id, IF has_explicit_position(r)
                                THEN explicit_position(r) ELSE <<rel_x, rel_y>>))

\* the resources laid out for a group key: the topology order when there is
\* one, else input order (group_resources.get(key, grouped.get(key, [])))
resources_of_group(key, gr, rs) == Get(gr, key, members_of(rs, key))

\* lines 189-190: a group without resources is skipped
skip_group(grp) == grp = <<>>

\* lines 186-230: the loop over the ordered groups;
\* st = [x, y, row_max_height, positions, group_bounds, error]
RECURSIVE place_groups(_, _, _, _, _)
place_groups(og, i, gr, rs, st) ==
    IF i > Len(og) THEN st
    ELSE LET gid == og[i]
             grp == resources_of_group(Some(gid), gr, rs)
             num == Len(grp)
             cols == Min2(MAX_GROUP_COLS, num)
             rows == (num + cols - 1) \div cols
             group_width == GROUP_INTERNAL_PAD * 2 + cols * ICON_CELL_WIDTH
             group_height == GROUP_TITLE_HEIGHT + GROUP_INTERNAL_PAD * 2
                                + rows * ICON_CELL_HEIGHT
             wrap == exceeds_canvas(st.x, group_width)
             cx == IF wrap THEN START_X ELSE st.x
             cy == IF wrap THEN st.y + st.row_max_height + GROUP_GAP ELSE st.y
             rmh == IF wrap THEN 0 ELSE st.row_max_height
             st2 == IF skip_group(grp) THEN st
                    ELSE IF cols = 0 THEN [st EXCEPT !.error = "ZeroDivisionError"]
                    ELSE [x |-> cx + group_width + GROUP_GAP, y |-> cy,
                          row_max_height |-> Max2(rmh, group_height),
                          positions |-> place_members(grp, 1, cols, st.positions),
                          group_bounds |-> Put(st.group_bounds, gid,
                                               <<cx, cy, group_width, group_height>>),
                          error |-> st.error]
         IN  IF st.error # "" THEN st ELSE place_groups(og, i + 1, gr, rs, st2)

\* lines 149-232 of _calculate_layout: [positions, group_bounds, error]
grid_layout(og, gr, rs) ==
    LET ungrouped == resources_of_group(None, gr, rs)
        u == place_ungrouped(ungrouped, 1,
                [x |-> START_X, y |-> START_Y, row_max_height |-> 0,
                 positions |-> EmptyDict])
        start == IF ungrouped # <<>>
                 THEN [x |-> START_X, y |-> u.y + u.row_max_height + GROUP_GAP,
                       row_max_height |-> 0, positions |-> u.positions,
                       group_bounds |-> EmptyDict, error |-> ""]
                 ELSE [x |-> START_X, y |-> START_Y, row_max_height |-> 0,
                       positions |-> u.positions, group_bounds |-> EmptyDict,
                       error |-> ""]
        g == place_groups(og, 1, gr, rs, start)
    IN  [positions |-> g.positions, group_bounds |-> g.group_bounds, error |-> g.error]

GridPlacement ==
    /\ pc = "grid"
    /\ LET res == grid_layout(ordered_groups, group_resources, resources)
       IN  /\ positions' = res.positions
           /\ group_bounds' = res.group_bounds
           /\ pc' = IF res.error = "" THEN "layout_done"
                    ELSE "ZeroDivisionError in _calculate_layout"
    /\ UNCHANGED <<inputVars, reportVars, graphVars, topoVars, edgeVars>>

----------------------------------------------------------------------------
(* drawio_generator.generate_drawio_diagram: shapes and edges *)

\* lines 605-610: group bounds moved down by the instructions height
offset_bounds(gb) ==
    [k \in DOMAIN gb |-> <<gb[k][1], gb[k][2] + INSTRUCTIONS_HEIGHT, gb[k][3], gb[k][4]>>]

\* absolute_position without the group origin
absolute_position_relative(r, pos, gb) == pos[r.id]

absolute_position(r, pos, gb) ==
    IF r.group # None /\ r.group[1] \in DOMAIN gb
    THEN <<gb[r.group[1]][1] + pos[r.id][1], gb[r.group[1]][2] + pos[r.id][2]>>
    ELSE pos[r.id]

\* lines 604-714: the shape of every resource is created at
\* positions[resource.id]; a missing key raises KeyError, which
\* generate_drawio_diagram answers with status 'error'
PlaceShapes ==
    /\ pc = "layout_done"
    /\ IF \E i \in DOMAIN resources : resources[i].id \notin DOMAIN positions
       THEN /\ pc' = "KeyError in generate_drawio_diagram"
            /\ UNCHANGED <<group_bounds, absolute_positions>>
       ELSE LET gb == offset_bounds(group_bounds)
            IN  /\ group_bounds' = gb
                /\ absolute_positions' =
                      [rid \in ResourceIds(resources) |->
                          LET i == CHOOSE j \in DOMAIN resources :
                                      /\ resources[j].id = rid
                                      /\ \A k \in DOMAIN resources :
                                            resources[k].id = rid => k <= j
                          IN  absolute_position(resources[i], positions, gb)]
                /\ pc' = "edges"
    /\ UNCHANGED <<inputVars, reportVars, graphVars, topoVars, positions, connection_directions,
                   outgoing_by_direction, incoming_by_direction, edges>>

Abs(n) == IF n < 0 THEN 0 - n ELSE n

\* classify_direction with >= in the first comparison: a tie of |dx| and
\* |dy| goes to the horizontal sides
classify_direction_ties_horizontal(src, tgt) ==
    LET dx == tgt[1] - src[1]
        dy == tgt[2] - src[2]
    IN  IF Abs(dx) >= Abs(dy)
        THEN IF dx > 0 THEN <<"right", "left">> ELSE <<"left", "right">>
        ELSE IF dy > 0 THEN <<"bottom", "top">> ELSE <<"top", "bottom">>

\* lines 729-744: <<exit_dir, entry_dir>> of a connection between two
\* placed resources
classify_direction(src, tgt) ==
    LET dx == tgt[1] - src[1]
        dy == tgt[2] - src[2]
    IN  IF Abs(dx) > Abs(dy)
        THEN IF dx > 0 THEN <<"right", "left">> ELSE <<"left", "right">>
        ELSE IF dy > 0 THEN <<"bottom", "top">> ELSE <<"top", "bottom">>

\* classify_connections without the skip of lines 724-727: a connection
\* with an unknown end is counted on the default sides
RECURSIVE classify_connections_counting_unknown(_, _, _, _)
classify_connections_counting_unknown(conns, i, ap, st) ==
    IF i > Len(conns) THEN st
    ELSE LET conn == conns[i]
             known == conn.source \in DOMAIN ap /\ conn.target \in DOMAIN ap
             d == IF known THEN classify_direction(ap[conn.source], ap[conn.target])
                  ELSE <<"right", "left">>
             src_key == <<conn.source, d[1]>>
             tgt_key == <<conn.target, d[2]>>
             st2 == [dirs |-> Append(st.dirs, d),
                     out |-> Put(st.out, src_key, Append(Get(st.out, src_key, <<>>), i)),
                     inc |-> Put(st.inc, tgt_key, Append(Get(st.inc, tgt_key, <<>>), i))]
         IN  classify_connections_counting_unknown(conns, i + 1, ap, st2)

\* lines 724-758: the first pass; st = [dirs, out, inc]
RECURSIVE classify_connections(_, _, _, _)
classify_connections(conns, i, ap, st) ==
    IF i > Len(conns) THEN st
    ELSE LET conn == conns[i]
             known == conn.source \in DOMAIN ap /\ conn.target \in DOMAIN ap
             d == classify_direction(ap[conn.source], ap[conn.target])
             src_key == <<conn.source, d[1]>>
             tgt_key == <<conn.target, d[2]>>
             st2 == IF ~known
                    THEN [st EXCEPT !.dirs = Append(@, <<"right", "left">>)]
                    ELSE [dirs |-> Append(st.dirs, d),
                          out |-> Put(st.out, src_key, Append(Get(st.out, src_key, <<>>), i)),
                          inc |-> Put(st.inc, tgt_key, Append(Get(st.inc, tgt_key, <<>>), i))]
         IN  classify_connections(conns, i + 1, ap, st2)

\* lines 760-771: the fraction min_pos + index * step as <<numerator,
\* denominator>>, index counted from 0
get_spread_position(index, total) ==
    IF total = 1 THEN <<1, 2>>
    ELSE <<2 * (total - 1) + 6 * index, 10 * (total - 1)>>

\* list.index(i) if i in list else 0, counted from 0
index_in(list, i) ==
    IF \E j \in DOMAIN list : list[j] = i
    THEN (CHOOSE j \in DOMAIN list : list[j] = i /\ \A k \in DOMAIN list : list[k] = i => j <= k) - 1
    ELSE 0

\* the list of connection indices a connection end is spread within
spread_list(by_direction, key, i) == Get(by_direction, key, <<i>>)

\* lines 774-836: the second pass, one edge per connection whose ends are
\* both shapes
RECURSIVE draw_edges(_, _, _, _, _, _)
draw_edges(conns, i, objects, dirs, out, inc) ==
    IF i > Len(conns) THEN <<>>
    ELSE LET conn == conns[i]
             rest == draw_edges(conns, i + 1, objects, dirs, out, inc)
             out_list == spread_list(out, <<conn.source, dirs[i][1]>>, i)
             in_list == spread_list(inc, <<conn.target, dirs[i][2]>>, i)
             edge == [conn |-> i, source |-> conn.source, target |-> conn.target,
                      exit_dir |-> dirs[i][1], entry_dir |-> dirs[i][2],
                      exit_spread |-> get_spread_position(index_in(out_list, i), Len(out_list)),
                      entry_spread |-> get_spread_position(index_in(in_list, i), Len(in_list))]
         IN  IF conn.source \notin objects \/ conn.target \notin objects
             THEN rest ELSE <<edge>> \o rest

\* lines 775-780: the connections the second pass warns about and skips
RECURSIVE unknown_connections(_, _, _)
unknown_connections(conns, i, objects) ==
    IF i > Len(conns) THEN <<>>
    ELSE (IF conns[i].source \notin objects \/ conns[i].target \notin objects
          THEN <<i>> ELSE <<>>) \o unknown_connections(conns, i + 1, objects)

RouteEdges ==
    /\ pc = "edges"
    /\ LET c == classify_connections(connections, 1, absolute_positions,
                    [dirs |-> <<>>, out |-> EmptyDict, inc |-> EmptyDict])
       IN  /\ connection_directions' = c.dirs
           /\ outgoing_by_direction' = c.out
           /\ incoming_by_direction' = c.inc
           /\ edges' = draw_edges(connections, 1, ResourceIds(resources),
                                  c.dirs, c.out, c.inc)
    /\ log_warnings' = unknown_connections(connections, 1, ResourceIds(resources))
    /\ pc' = "done"
    /\ UNCHANGED <<inputVars, validation, file_written, status, graphVars, topoVars,
                   gridVars, absolute_positions>>

----------------------------------------------------------------------------
(* drawio_generator: request validation and the response of                *)
(* generate_drawio_diagram                                                 *)

LARGE_DIAGRAM == 15

NoValidation == [errors |-> <<>>, warnings |-> <<>>, tips |-> <<>>]

\* `if r.group:` of an Optional[str]
truthy(group) == group # None /\ group # Some("")

\* duplicates without the count test: no id is reported
duplicates_none(ids) == <<>>

\* lines 488-489: [id for id in ids if ids.count(id) > 1]
duplicates(ids) ==
    SelectSeq(ids, LAMBDA id : Cardinality({i \in DOMAIN ids : ids[i] = id}) > 1)

\* lines 416-502; the messages are shortened to their first words, and the
\* warning about resource types without an icon is left out (resource_type
\* is not part of the state)
validate_diagram_request(rs, gs, conns) ==
    IF rs = <<>>
    THEN [NoValidation EXCEPT !.errors = <<"No resources specified">>]
    ELSE LET grouped_resources == {rs[i].id : i \in {j \in DOMAIN rs : truthy(rs[j].group)}}
             ungrouped == SelectSeq(rs, LAMBDA r : r.id \notin grouped_resources)
             connected_ids == {conns[i].source : i \in DOMAIN conns}
                                  \cup {conns[i].target : i \in DOMAIN conns}
             orphans == SelectSeq(rs, LAMBDA r : r.id \notin connected_ids)
             ids == [i \in DOMAIN rs |-> rs[i].id]
         IN  [errors |->
                  IF duplicates(ids) # <<>> THEN <<"Duplicate resource IDs found">> ELSE <<>>,
              warnings |->
                  IF gs # <<>> /\ ungrouped # <<>> /\ 2 * Len(ungrouped) > Len(rs)
                  THEN <<"Most resources are ungrouped">> ELSE <<>>,
              tips |->
                  (IF gs = <<>> THEN <<"Consider adding groups">> ELSE <<>>)
                  \o (IF conns = <<>> THEN <<"No connections defined">>
                      ELSE IF orphans # <<>> THEN <<"Some resources have no connections">>
                      ELSE <<>>)
                  \o (IF Len(rs) > LARGE_DIAGRAM THEN <<"Large diagram">> ELSE <<>>)]

\* lines 538-548: validation and the early return
ValidateRequest ==
    /\ pc = "generate_drawio_diagram"
    /\ LET v == validate_diagram_request(resources, groups, connections)
       IN  /\ validation' = v
           /\ IF v.errors # <<>>
              THEN /\ status' = "error"
                   /\ pc' = "returned"
              ELSE /\ status' = status
                   /\ pc' = "calculate_layout"
    /\ UNCHANGED <<inputVars, log_warnings, file_written, graphVars, topoVars,
                   gridVars, edgeVars>>

\* lines 857-896: file.write() and the response; whether the file exists
\* afterwards is up to the file system
WriteFile ==
    /\ pc = "done"
    /\ file_written' = TRUE
    /\ \E exists \in BOOLEAN : status' = IF exists THEN "success" ELSE "error"
    /\ pc' = "returned"
    /\ UNCHANGED <<inputVars, validation, log_warnings, graphVars, topoVars,
                   gridVars, edgeVars>>

Exceptions ==
    {"KeyError in assign_layers", "ZeroDivisionError in _calculate_layout",
     "KeyError in generate_drawio_diagram"}

\* lines 898-903: except Exception
ReportException ==
    /\ pc \in Exceptions
    /\ status' = "error"
    /\ pc' = "returned"
    /\ UNCHANGED <<inputVars, validation, log_warnings, file_written, graphVars,
                   topoVars, gridVars, edgeVars>>

----------------------------------------------------------------------------
(* Inputs *)

ResIds == <<"a", "b", "c", "d", "e">>
Outsider == "z"

Unplaced(id) == Resource(id, None, None, None)

ConnLists(ids, m) ==
    UNION {[1..k -> [source : ids, target : ids]] : k \in 0..m}

ScenarioA ==
    /\ resources = <<Unplaced("user"), Unplaced("frontdoor"), Unplaced("webapp"),
                     Unplaced("sql"), Unplaced("storage")>>
    /\ connections = <<Connection("user", "frontdoor"),
                       Connection("frontdoor", "webapp"),
                       Connection("webapp", "sql"),
                       Connection("webapp", "storage")>>

\* a -> c directly and a -> b -> c: two paths of different length
Diamond ==
    /\ resources = <<Unplaced("a"), Unplaced("b"), Unplaced("c")>>
    /\ connections \in {<<Connection("a", "c"), Connection("a", "b"), Connection("b", "c")>>,
                        <<Connection("a", "b"), Connection("b", "c"), Connection("a", "c")>>}

\* a cycle entered from a source
RootedCycle ==
    /\ resources = <<Unplaced("a"), Unplaced("b"), Unplaced("c")>>
    /\ connections = <<Connection("a", "b"), Connection("b", "c"), Connection("c", "b")>>

Blank ==
    /\ graph = EmptyGraph
    /\ sources = <<>>
    /\ layers = EmptyDict
    /\ queue = <<>>
    /\ hubs = EmptyDict
    /\ ordered_groups = <<>>
    /\ group_resources = EmptyDict
    /\ layer_order = <<>>
    /\ positions = EmptyDict
    /\ group_bounds = EmptyDict
    /\ absolute_positions = EmptyDict
    /\ connection_directions = <<>>
    /\ outgoing_by_direction = EmptyDict
    /\ incoming_by_direction = EmptyDict
    /\ edges = <<>>
    /\ validation = NoValidation
    /\ log_warnings = <<>>
    /\ file_written = FALSE
    /\ status = ""

\* the arguments left at their defaults
DefaultArguments ==
    /\ threshold = HUB_CONNECTIVITY_THRESHOLD
    /\ prev_layer_order = None

\* a call of assign_layers(resources, connections)
Init ==
    /\ \/ \E n \in 0..MaxRes :
            /\ resources = [i \in 1..n |-> Unplaced(ResIds[i])]
            /\ connections \in ConnLists({ResIds[i] : i \in 1..n} \cup {Outsider}, MaxConns)
       \/ ScenarioA
       \/ Diamond
       \/ RootedCycle
    /\ groups = <<>>
    /\ DefaultArguments
    /\ pc = "assign_layers"
    /\ Blank

Next ==
    \/ AssignLayersBegin
    \/ BfsStep
    \/ AssignLayersEnd

Spec == Init /\ [][Next]_vars

----------------------------------------------------------------------------
(* A call of _calculate_layout from generate_drawio_diagram, followed by   *)
(* the shape and edge passes                                               *)

MaxLayoutRes == 2
MaxLayoutConns == 1

GroupIds == <<"g1", "g2">>
GroupChoices == {None} \cup {Some(GroupIds[i]) : i \in DOMAIN GroupIds}
GroupLists == {<<>>, GroupIds}
CoordChoices == {None, Some(500)}

\* a -> b leaves a on its right side, b -> a enters a on its right side
SharedSide ==
    /\ resources = <<Unplaced("a"), Unplaced("b")>>
    /\ groups = <<>>
    /\ connections = <<Connection("a", "b"), Connection("b", "a")>>

\* a cycle without a root, a self-loop, a duplicate connection, a connection
\* from an id that is no resource, an isolated resource and an empty group
Unusual ==
    /\ resources = <<Resource("a", Some("g1"), None, None), Unplaced("b"), Unplaced("c")>>
    /\ groups = <<"g1", "g2">>
    /\ connections = <<Connection("a", "b"), Connection("b", "a"), Connection("b", "b"),
                       Connection("a", "b"), Connection(Outsider, "a")>>

\* a cycle entered from a source, inside a group
GroupedRootedCycle ==
    /\ resources = <<Resource("a", Some("g1"), None, None),
                     Resource("b", Some("g1"), None, None)>>
    /\ groups = <<"g1">>
    /\ connections = <<Connection("a", "b"), Connection("b", "b")>>

LayoutInit ==
    /\ \/ \E n \in 1..MaxLayoutRes :
            /\ resources \in [1..n -> [id : {"a", "b", "c", "d"}, group : GroupChoices,
                                        x : CoordChoices, y : CoordChoices]]
            /\ \A i \in 1..n : resources[i].id = ResIds[i] /\ resources[i].x = resources[i].y
            /\ connections \in ConnLists({ResIds[i] : i \in 1..n} \cup {Outsider},
                                         MaxLayoutConns)
            /\ groups \in GroupLists
       \/ SharedSide
       \/ Unusual
       \/ GroupedRootedCycle
    /\ DefaultArguments
    /\ pc = "calculate_layout"
    /\ Blank

LayoutNext ==
    \/ CalculateLayoutBegin
    \/ AssignLayersBegin
    \/ BfsStep
    \/ AssignLayersEnd
    \/ TopologyLayout
    \/ GridPlacement
    \/ PlaceShapes
    \/ RouteEdges

LayoutSpec == LayoutInit /\ [][LayoutNext]_vars

----------------------------------------------------------------------------
(* Layouts with rows of ungrouped resources and rows of groups *)

MaxUngrouped == 10
MaxGroups == 4

\* numbers of ungrouped resources: none, few, a full row, a row and one
UngroupedCounts == {0, 2, MaxUngrouped - 1, MaxUngrouped}

\* numbers of members: none, one, a full row, a row and one
GroupSizes == {0, 1, MAX_GROUP_COLS, MAX_GROUP_COLS + 1}

ResName(k) == "r" \o ToString(k)
GroupName(k) == "grp" \o ToString(k)

\* every third resource carries an explicit position when explicit holds
GridCoord(k, explicit) == IF explicit /\ k % 3 = 0 THEN Some(500) ELSE None

\* the members of the groups g, g + 1, ..., numbered from k + 1
RECURSIVE GridMembers(_, _, _, _)
GridMembers(sizes, g, k, explicit) ==
    IF g > Len(sizes) THEN <<>>
    ELSE [j \in 1..sizes[g] |->
             Resource(ResName(k + j), Some(GroupName(g)),
                      GridCoord(k + j, explicit), GridCoord(k + j, explicit))]
         \o GridMembers(sizes, g + 1, k + sizes[g], explicit)

GridResources(u, sizes, explicit) ==
    [k \in 1..u |-> Resource(ResName(k), None, GridCoord(k, explicit),
                             GridCoord(k, explicit))]
    \o GridMembers(sizes, 1, u, explicit)

\* no connection, or one between the first and the last resource
GridConnections(rs, explicit) ==
    IF rs = <<>> \/ explicit THEN {<<>>}
    ELSE {<<>>, <<Connection(rs[1].id, rs[Len(rs)].id)>>,
          <<Connection(rs[Len(rs)].id, rs[1].id)>>}

GridInit ==
    /\ \E u \in UngroupedCounts : \E n \in 0..MaxGroups :
          \E sizes \in [1..n -> GroupSizes] : \E explicit \in BOOLEAN :
             /\ resources = GridResources(u, sizes, explicit)
             /\ groups = [g \in 1..n |-> GroupName(g)]
             /\ connections \in GridConnections(resources, explicit)
    /\ DefaultArguments
    /\ pc = "calculate_layout"
    /\ Blank

GridSpec == GridInit /\ [][LayoutNext]_vars

\* the interpreter runs the loop as long as it can
FairSpec == Spec /\ WF_vars(Next)

----------------------------------------------------------------------------
(* Direct calls of detect_hubs, order_within_layer and optimize_group_order *)

MaxCallRes == 3
MaxCallConns == 2
MaxGroupConns == 1
MaxThreshold == 4

\* ids of the resources of the previous layer
PrevIds == <<"p", "q">>
PrevChoices ==
    {None, Some(<<>>), Some(<<"p">>), Some(<<"p", "q">>), Some(<<"q", "p">>)}

\* the connection lists that end in the layer: from the previous layer or
\* from the layer itself
ConnListsInto(from, to, m) ==
    UNION {[1..k -> [source : from, target : to]] : k \in 0..m}

CallGroupLists == {<<>>, <<"g1">>, <<"g1", "g2">>, <<"g2", "g1">>}

\* a resource with five connections among resources with one or two
Star ==
    /\ resources = <<Unplaced("a"), Unplaced("b"), Unplaced("c"), Unplaced("d")>>
    /\ connections = <<Connection("a", "b"), Connection("a", "c"), Connection("d", "a"),
                       Connection("a", "a"), Connection("b", "c")>>

\* a layer of five resources below a previous layer of two
Fan ==
    /\ resources = <<Unplaced("a"), Unplaced("b"), Unplaced("c"), Unplaced("d"),
                     Unplaced("e")>>
    /\ connections = <<Connection("q", "a"), Connection("p", "b"), Connection("q", "b"),
                       Connection("p", "c"), Connection("d", "e"), Connection("e", "d"),
                       Connection("e", "a")>>

\* a hub group whose members are sources, and two spoke groups each with a
\* VNet fed by the hub and a dependent of that VNet
HubSpoke ==
    /\ resources = <<Resource("spoke1_vnet", Some("spoke1"), None, None),
                     Resource("spoke1_vm", Some("spoke1"), None, None),
                     Resource("hub_vnet", Some("hub"), None, None),
                     Resource("hub_firewall", Some("hub"), None, None),
                     Resource("spoke2_vnet", Some("spoke2"), None, None),
                     Resource("spoke2_vm", Some("spoke2"), None, None)>>
    /\ groups \in {<<"spoke1", "hub", "spoke2">>, <<"spoke2", "spoke1", "hub">>}
    /\ connections = <<Connection("hub_vnet", "spoke1_vnet"),
                       Connection("hub_vnet", "spoke2_vnet"),
                       Connection("spoke1_vnet", "spoke1_vm"),
                       Connection("spoke2_vnet", "spoke2_vm")>>

\* b has a connection into the previous layer as well as one from it
BackEdge ==
    /\ resources = <<Unplaced("a"), Unplaced("b")>>
    /\ connections = <<Connection("q", "a"), Connection("q", "b"), Connection("b", "p")>>

CallInit ==
    /\ \/ /\ \/ \E n \in 0..MaxCallRes :
                  /\ resources = [i \in 1..n |-> Unplaced(ResIds[i])]
                  /\ connections \in ConnLists({ResIds[i] : i \in 1..n} \cup {Outsider},
                                               MaxCallConns)
             \/ Star
          /\ threshold \in (0 - 1)..MaxThreshold
          /\ groups = <<>>
          /\ prev_layer_order = None
          /\ pc = "detect_hubs"
       \/ /\ \/ /\ \E n \in 0..MaxCallRes :
                     /\ resources = [i \in 1..n |-> Unplaced(ResIds[i])]
                     /\ connections \in
                           ConnListsInto({ResIds[i] : i \in 1..n} \cup
                                         {PrevIds[i] : i \in DOMAIN PrevIds},
                                         {ResIds[i] : i \in 1..n}, MaxCallConns)
                /\ prev_layer_order \in PrevChoices
             \/ /\ Fan
                /\ prev_layer_order \in {None, Some(<<"p", "q">>)}
             \/ /\ BackEdge
                /\ prev_layer_order = Some(<<"p", "q">>)
          /\ threshold = HUB_CONNECTIVITY_THRESHOLD
          /\ groups = <<>>
          /\ pc = "order_within_layer"
       \/ /\ \/ /\ \E n \in 0..MaxCallRes :
                     /\ \E member_of \in [1..n -> GroupChoices] :
                           resources = [i \in 1..n |->
                                           Resource(ResIds[i], member_of[i], None, None)]
                     /\ connections \in ConnLists({ResIds[i] : i \in 1..n}, MaxGroupConns)
                /\ groups \in CallGroupLists
             \/ HubSpoke
          /\ DefaultArguments
          /\ pc = "optimize_group_order"
    /\ Blank

CallNext ==
    \/ DetectHubs
    \/ OrderWithinLayer
    \/ OptimizeGroupOrderBegin
    \/ AssignLayersBegin
    \/ BfsStep
    \/ AssignLayersEnd
    \/ OptimizeGroupOrderEnd

CallSpec == CallInit /\ [][CallNext]_vars

----------------------------------------------------------------------------
(* A call of calculate_topology_layout *)

MaxTopoRes == 2
MaxTopoConns == 2

\* a hub in the middle of the list, two sources with equal keys, and two
\* resources of the last layer with different connectivity
Mixed ==
    /\ resources = <<Unplaced("n"), Unplaced("t"), Unplaced("h"), Unplaced("s"),
                     Unplaced("u")>>
    /\ connections = <<Connection("h", "n"), Connection("h", "t"), Connection("s", "h"),
                       Connection("u", "t")>>
    /\ groups = <<>>

TopologyInit ==
    /\ \/ /\ \E n \in 0..MaxTopoRes :
                /\ \E group_of \in [1..n -> GroupChoices] :
                      resources = [i \in 1..n |-> Resource(ResIds[i], group_of[i], None, None)]
                /\ connections \in ConnLists({ResIds[i] : i \in 1..n} \cup {Outsider},
                                             MaxTopoConns)
          /\ groups = <<"g1">>
       \/ Mixed
       \/ HubSpoke
    /\ DefaultArguments
    /\ pc = "assign_layers"
    /\ Blank

TopologyNext ==
    \/ AssignLayersBegin
    \/ BfsStep
    \/ AssignLayersEnd
    \/ TopologyLayout

TopologySpec == TopologyInit /\ [][TopologyNext]_vars

----------------------------------------------------------------------------
(* A call of generate_drawio_diagram: validation, layout, shapes, edges,    *)
(* file and response                                                       *)

MaxRequestRes == 2
MaxRequestConns == 1

RequestIds == {ResIds[i] : i \in 1..MaxRequestRes}
RequestGroups == {None, Some("g1")}

\* three connections leave a, two more name a resource that does not exist
Dangling ==
    /\ resources = <<Unplaced("a"), Unplaced("b"), Unplaced("c")>>
    /\ connections = <<Connection("a", "b"), Connection(Outsider, "b"),
                       Connection("a", "c"), Connection("a", Outsider),
                       Connection("a", "b")>>
    /\ groups = <<>>

RequestInit ==
    /\ \/ /\ \E n \in 0..MaxRequestRes :
                \E id_of \in [1..n -> RequestIds], group_of \in [1..n -> RequestGroups] :
                    resources = [i \in 1..n |-> Resource(id_of[i], group_of[i], None, None)]
          /\ connections \in ConnLists(RequestIds \cup {Outsider}, MaxRequestConns)
          /\ groups \in {<<>>, <<"g1", "g2">>}
       \/ Dangling
    /\ DefaultArguments
    /\ pc = "generate_drawio_diagram"
    /\ Blank

RequestNext ==
    \/ ValidateRequest
    \/ LayoutNext
    \/ WriteFile
    \/ ReportException

RequestSpec == RequestInit /\ [][RequestNext]_vars

----------------------------------------------------------------------------
(* Properties of build_adjacency_graph and assign_layers *)

Endpoints(conns) ==
    {conns[i].source : i \in DOMAIN conns} \cup {conns[i].target : i \in DOMAIN conns}

SourceEnds(conns) == {conns[i].source : i \in DOMAIN conns}
TargetEnds(conns) == {conns[i].target : i \in DOMAIN conns}

GraphBuilt == pc \in {"bfs", "layers_done"}

\* the connections both of whose ends are resources, as pairs
InSetEdges ==
    {<<connections[i].source, connections[i].target>> : i \in
        {j \in DOMAIN connections :
            /\ connections[j].source \in ResourceIds(resources)
            /\ connections[j].target \in ResourceIds(resources)}}

Compose(R, E) == {<<p[1][1], p[2][2]>> : p \in {x \in R \X E : x[1][2] = x[2][1]}}

RECURSIVE Closure(_, _, _)
Closure(E, R, k) == IF k = 0 THEN R ELSE Closure(E, R \cup Compose(R, E), k - 1)

\* no resource reaches itself along connections inside the resource set
Acyclic ==
    LET C == Closure(InSetEdges, InSetEdges, Len(resources))
    IN  \A rid \in ResourceIds(resources) : <<rid, rid>> \notin C

Preds(rid) == {e[1] : e \in {x \in InSetEdges : x[2] = rid}}

\* number of edges of the longest path inside the resource set that ends in
\* rid (defined on acyclic graphs)
RECURSIVE LongestPathLayer(_)
LongestPathLayer(rid) ==
    IF Preds(rid) = {} THEN 0
    ELSE LET S == {LongestPathLayer(u) : u \in Preds(rid)}
         IN  1 + (CHOOSE m \in S : \A x \in S : x <= m)

C4_AllFourMappings ==
    GraphBuilt =>
        \A id \in Endpoints(connections) :
            /\ id \in DOMAIN graph.outgoing
            /\ id \in DOMAIN graph.incoming
            /\ id \in DOMAIN graph.out_degree
            /\ id \in DOMAIN graph.in_degree

\* C4 amended: out_degree and in_degree have an entry for every id that is
\* the source or the target of a connection (zero when it is never a source,
\* resp. never a target); outgoing has an entry exactly for the ids that are
\* a source and incoming exactly for the ids that are a target
C4_DegreeMappings ==
    GraphBuilt =>
        /\ DOMAIN graph.out_degree = Endpoints(connections)
        /\ DOMAIN graph.in_degree = Endpoints(connections)
        /\ DOMAIN graph.outgoing = SourceEnds(connections)
        /\ DOMAIN graph.incoming = TargetEnds(connections)
        /\ \A id \in Endpoints(connections) \ SourceEnds(connections) :
              graph.out_degree[id] = 0
        /\ \A id \in Endpoints(connections) \ TargetEnds(connections) :
              graph.in_degree[id] = 0

\* an id that is only ever a target, and one that is only ever a source
C4_Witness ==
    /\ GraphBuilt
    /\ TargetEnds(connections) \ SourceEnds(connections) # {}
    /\ SourceEnds(connections) \ TargetEnds(connections) # {}

\* C5: on an acyclic connection graph, every connection u -> v between two
\* resources has layer(v) >= layer(u) + 1 in the returned mapping
C5_EdgesGoDown ==
    (pc = "layers_done" /\ Acyclic) =>
        \A e \in InSetEdges : layers[e[2]] >= layers[e[1]] + 1

\* a returned layering of an acyclic graph with an edge that skips a layer
C5_Witness ==
    /\ pc = "layers_done"
    /\ Acyclic
    /\ \E e \in InSetEdges : layers[e[2]] > layers[e[1]] + 1

\* C6: on an acyclic connection graph every resource gets its longest-path
\* layer; user -> frontdoor -> webapp -> {sql, storage} gives 0, 1, 2, 3, 3
C6_LongestPath ==
    (pc = "layers_done" /\ Acyclic) =>
        /\ DOMAIN layers = ResourceIds(resources)
        /\ \A rid \in ResourceIds(resources) : layers[rid] = LongestPathLayer(rid)
        /\ ScenarioA =>
              layers = [rid \in ResourceIds(resources) |->
                           CASE rid = "user" -> 0
                             [] rid = "frontdoor" -> 1
                             [] rid = "webapp" -> 2
                             [] OTHER -> 3]

\* a resource reached by two paths of different length has got the deeper
\* layer
C6_Witness ==
    /\ pc = "layers_done"
    /\ Acyclic
    /\ \E rid \in ResourceIds(resources) :
          \E u \in Preds(rid), v \in Preds(rid) :
              /\ layers[u] < layers[v]
              /\ layers[rid] = layers[v] + 1

\* C7: no layer value ever exceeds the number of resources
C7_LayersBounded ==
    \A rid \in DOMAIN layers : layers[rid] <= Len(resources)

\* the resources without an incoming connection from a resource
Roots ==
    {rid \in ResourceIds(resources) :
        ~\E i \in DOMAIN connections :
            /\ connections[i].target = rid
            /\ connections[i].source \in ResourceIds(resources)}

\* C10: once the queue is seeded, every resource without an incoming
\* connection from inside the resource set has layer 0, and keeps it
C10_RootsAtZero ==
    GraphBuilt => \A rid \in Roots : rid \in DOMAIN layers /\ layers[rid] = 0

\* a root with no connection at all and a root whose only incoming
\* connection comes from outside, after the BFS has raised another layer
C10_Witness ==
    /\ pc = "layers_done"
    /\ \E rid \in Roots : rid \notin Endpoints(connections)
    /\ \E rid \in Roots : \E i \in DOMAIN connections :
          connections[i].target = rid /\ connections[i].source = Outsider
    /\ \E rid \in DOMAIN layers : layers[rid] > 0

\* the resources reached from a source along connections inside the
\* resource set, the sources included
Reachable ==
    LET C == Closure(InSetEdges, InSetEdges, Len(resources))
    IN  Roots \cup {rid \in ResourceIds(resources) : \E s \in Roots : <<s, rid>> \in C}

Unreached == ResourceIds(resources) \ Reachable

\* no resource reached from a source lies on a cycle
NoRootedCycle ==
    LET C == Closure(InSetEdges, InSetEdges, Len(resources))
    IN  \A rid \in Reachable : <<rid, rid>> \notin C

C12_KeysAreResources ==
    pc = "layers_done" =>
        /\ DOMAIN layers = ResourceIds(resources)
        /\ Outsider \notin DOMAIN layers
        /\ \A rid \in DOMAIN layers : layers[rid] \in Nat

\* a connection from a visited resource to an id that is no resource, and a
\* resource below layer 0
C12_Witness ==
    /\ pc = "layers_done"
    /\ \E i \in DOMAIN connections :
          /\ connections[i].source \in Reachable
          /\ connections[i].target = Outsider
    /\ \E rid \in DOMAIN layers : layers[rid] > 0

----------------------------------------------------------------------------
(* Properties of order_within_layer, optimize_group_order and detect_hubs *)

FracLess(p, q) == p[1] * q[2] < q[1] * p[2]
FracEq(p, q) == p[1] * q[2] = q[1] * p[2]

Occurrences(list, v) == Cardinality({i \in DOMAIN list : list[i] = v})

\* C13: order_within_layer returns a permutation of its input list: every
\* resource occurs in the result as often as in the input, for the empty
\* list, a single resource, a missing or empty previous-layer order and
\* resources without connections
C13_Permutation ==
    pc = "order_within_layer returned" =>
        /\ Len(layer_order) = Len(resources)
        /\ \A i \in DOMAIN resources :
              Occurrences(layer_order, resources[i]) = Occurrences(resources, resources[i])
        /\ \A i \in DOMAIN layer_order :
              Occurrences(layer_order, layer_order[i]) = Occurrences(resources, layer_order[i])

\* three or more resources, one without connections, put in another order
\* for want of a previous layer
C13_Witness ==
    /\ pc = "order_within_layer returned"
    /\ prev_layer_order \in {None, Some(<<>>)}
    /\ Len(resources) >= 3
    /\ \E rid \in ResourceIds(resources) : rid \notin Endpoints(connections)
    /\ layer_order # resources

\* the mean layer of the members of group gid as a fraction, 0 without
\* members
MeanLayer(gid) ==
    LET member(i) == resources[i].group = Some(gid)
        count == Cardinality({i \in DOMAIN resources : member(i)})
        total == SumSeq([i \in DOMAIN resources |->
                            IF member(i) THEN layers[resources[i].id] ELSE 0], 1)
    IN  IF count = 0 THEN <<0, 1>> ELSE <<total, count>>

PositionIn(list, v) == CHOOSE j \in DOMAIN list : list[j] = v

\* C14: with connections, optimize_group_order returns the groups in
\* ascending order of the mean layer of their members, a group without
\* members counting as 0 and groups of equal mean keeping their input order;
\* a group whose members are all sources precedes every group with a member
\* in a layer >= 1
C14_GroupsByMeanLayer ==
    (pc = "optimize_group_order returned" /\ connections # <<>>) =>
        /\ Len(ordered_groups) = Len(groups)
        /\ \A i \in DOMAIN groups : Occurrences(ordered_groups, groups[i]) = 1
        /\ \A i \in DOMAIN ordered_groups : \A j \in DOMAIN ordered_groups :
              i < j =>
                 /\ ~FracLess(MeanLayer(ordered_groups[j]), MeanLayer(ordered_groups[i]))
                 /\ FracEq(MeanLayer(ordered_groups[i]), MeanLayer(ordered_groups[j])) =>
                       PositionIn(groups, ordered_groups[i])
                          < PositionIn(groups, ordered_groups[j])
        /\ \A i \in DOMAIN groups : \A j \in DOMAIN groups :
              ( /\ \E k \in DOMAIN resources : resources[k].group = Some(groups[i])
                /\ \A k \in DOMAIN resources :
                      resources[k].group = Some(groups[i]) => resources[k].id \in Roots
                /\ \E k \in DOMAIN resources :
                      /\ resources[k].group = Some(groups[j])
                      /\ layers[resources[k].id] >= 1 )
              => PositionIn(ordered_groups, groups[i]) < PositionIn(ordered_groups, groups[j])

\* the hub group, listed behind a spoke group, has been moved to the front
\* and the two spoke groups of equal mean have kept their order
C14_Witness ==
    /\ pc = "optimize_group_order returned"
    /\ HubSpoke
    /\ ordered_groups[1] = "hub"
    /\ groups[1] # "hub"
    /\ FracEq(MeanLayer(ordered_groups[2]), MeanLayer(ordered_groups[3]))

\* C15: without connections optimize_group_order returns the groups in
\* their input order
C15_EmptyConnectionsKeepOrder ==
    (pc = "optimize_group_order returned" /\ connections = <<>>) =>
        ordered_groups = groups

\* two groups with different numbers of members, the larger one first
C15_Witness ==
    /\ pc = "optimize_group_order returned"
    /\ connections = <<>>
    /\ Len(groups) = 2
    /\ Len(members_of(resources, Some(groups[1])))
          > Len(members_of(resources, Some(groups[2])))
    /\ members_of(resources, Some(groups[2])) # <<>>

\* the number of connections that leave rid plus the number that enter it
Degree(rid) ==
    Cardinality({i \in DOMAIN connections : connections[i].source = rid})
      + Cardinality({i \in DOMAIN connections : connections[i].target = rid})

\* C16: detect_hubs returns exactly the resources whose degree is at least
\* the threshold, each with its degree, no id outside the resource list, and
\* a larger threshold never gives a hub that the smaller one does not give
C16_HubsByDegree ==
    pc = "detect_hubs returned" =>
        /\ DOMAIN hubs = {rid \in ResourceIds(resources) : Degree(rid) >= threshold}
        /\ \A rid \in DOMAIN hubs : hubs[rid] = Degree(rid)
        /\ DOMAIN hubs \subseteq ResourceIds(resources)
        /\ \A t \in threshold..(MaxThreshold + 1) :
              DOMAIN detect_hubs(resources, connections, t) \subseteq DOMAIN hubs

\* a hub with a self-loop, a resource below the threshold, and an id outside
\* the resource list that reaches the threshold
C16_Witness ==
    /\ pc = "detect_hubs returned"
    /\ threshold > 0
    /\ \E rid \in DOMAIN hubs : \E i \in DOMAIN connections :
          connections[i].source = rid /\ connections[i].target = rid
    /\ ResourceIds(resources) \ DOMAIN hubs # {}
    /\ Degree(Outsider) >= threshold
    /\ \E t \in threshold..(MaxThreshold + 1) :
          DOMAIN detect_hubs(resources, connections, t) # DOMAIN hubs

----------------------------------------------------------------------------
(* Properties of _calculate_layout and of the edge passes *)

\* the listed groups that have at least one member resource
NonEmptyGroups ==
    {groups[i] : i \in {j \in DOMAIN groups : members_of(resources, Some(groups[j])) # <<>>}}

\* C2: the layout returns a position for exactly the resource ids and bounds
\* for exactly the groups that have a member
C2_EveryResourcePlaced ==
    pc = "layout_done" =>
        /\ DOMAIN positions = ResourceIds(resources)
        /\ DOMAIN group_bounds = NonEmptyGroups

\* C8: a resource that carries an explicit x and an explicit y is in the
\* returned positions at exactly (x, y)
C8_ExplicitHonored ==
    pc = "layout_done" =>
        \A i \in DOMAIN resources :
            (resources[i].x # None /\ resources[i].y # None) =>
                /\ resources[i].id \in DOMAIN positions
                /\ positions[resources[i].id] = <<resources[i].x[1], resources[i].y[1]>>

\* the ends of the drawn edges: <<edge, end, node, side, fraction, index, n>>
Attachments ==
    {<<j, "exit", edges[j].source, edges[j].exit_dir, edges[j].exit_spread>> :
        j \in DOMAIN edges}
    \cup
    {<<j, "entry", edges[j].target, edges[j].entry_dir, edges[j].entry_spread>> :
        j \in DOMAIN edges}

AttachedAt(node, side) == {a \in Attachments : a[3] = node /\ a[4] = side}


\* C3: the fractions of the connections that attach to one side of one node,
\* leaving or entering, are pairwise distinct, increase with the connection
\* index, lie in [0.2, 0.8], and a single one is 0.5
C3_SpreadDistinct ==
    pc = "done" =>
        \A a \in Attachments :
            /\ ~FracLess(a[5], <<2, 10>>)
            /\ ~FracLess(<<8, 10>>, a[5])
            /\ Cardinality(AttachedAt(a[3], a[4])) = 1 => FracEq(a[5], <<1, 2>>)
            /\ \A b \in AttachedAt(a[3], a[4]) :
                  /\ (a # b) => ~FracEq(a[5], b[5])
                  /\ (a[1] < b[1]) => FracLess(a[5], b[5])

LayoutEngineErrors ==
    {"KeyError in assign_layers", "ZeroDivisionError in _calculate_layout"}

\* C9: build_adjacency_graph, assign_layers, detect_hubs,
\* optimize_group_order, calculate_topology_layout and _calculate_layout
\* perform no failing lookup and raise nothing
C9_NoError == pc \notin LayoutEngineErrors

\* the layout has returned for an input with a cycle, a self-loop, a
\* duplicate connection, an unknown endpoint, an isolated resource and an
\* empty group
C9_Witness ==
    /\ pc = "layout_done"
    /\ \E i \in DOMAIN connections : connections[i].source = connections[i].target
    /\ \E i \in DOMAIN connections : \E j \in DOMAIN connections :
          i # j /\ connections[i] = connections[j]
    /\ \E i \in DOMAIN connections : \E j \in DOMAIN connections :
          /\ connections[i].source = connections[j].target
          /\ connections[i].target = connections[j].source
          /\ connections[i].source # connections[i].target
    /\ \E i \in DOMAIN connections : connections[i].source \notin ResourceIds(resources)
    /\ \E rid \in ResourceIds(resources) : rid \notin Endpoints(connections)
    /\ \E i \in DOMAIN groups : groups[i] \notin NonEmptyGroups

----------------------------------------------------------------------------
(* Properties of the grid: rows of ungrouped resources, rows of groups *)

LaidOut == pc \in {"layout_done", "edges", "done"}

GBLeft(g) == group_bounds[g][1]
GBTop(g) == group_bounds[g][2]
GBRight(g) == group_bounds[g][1] + group_bounds[g][3]
GBBottom(g) == group_bounds[g][2] + group_bounds[g][4]

\* C17: no two group rectangles overlap: two groups of one row have disjoint
\* x-intervals, and a group of a later row starts no higher than the bottom
\* of every group of the rows above plus the gap between rows
C17_GroupsDisjoint ==
    LaidOut =>
        \A g \in DOMAIN group_bounds : \A h \in DOMAIN group_bounds :
            /\ (g # h) =>
                  \/ GBRight(g) <= GBLeft(h) \/ GBRight(h) <= GBLeft(g)
                  \/ GBBottom(g) <= GBTop(h) \/ GBBottom(h) <= GBTop(g)
            /\ (g # h /\ GBTop(g) = GBTop(h)) =>
                  \/ GBRight(g) + GROUP_GAP <= GBLeft(h)
                  \/ GBRight(h) + GROUP_GAP <= GBLeft(g)
            /\ (GBTop(g) < GBTop(h)) => GBBottom(g) + GROUP_GAP <= GBTop(h)

\* a row with a tall group followed by a lower one, and a group in the row
\* below
C17_Witness ==
    /\ LaidOut
    /\ \E g \in DOMAIN group_bounds : \E h \in DOMAIN group_bounds :
          \E k \in DOMAIN group_bounds :
             /\ GBTop(g) = GBTop(h)
             /\ GBLeft(g) < GBLeft(h)
             /\ GBBottom(g) > GBBottom(h)
             /\ GBTop(k) > GBTop(g)

\* the indices of the resources that took their position from the grid
AutoPlaced ==
    {i \in DOMAIN resources :
        /\ ~(resources[i].x # None /\ resources[i].y # None)
        /\ resources[i].id \in DOMAIN positions}

\* C18: two auto-positioned resources that are both ungrouped or both in one
\* group never have the same coordinate, and two auto-positioned ungrouped
\* resources of one row are at least a cell width apart
C18_CellsDistinct ==
    LaidOut =>
        \A i \in AutoPlaced : \A j \in AutoPlaced :
            (i # j /\ resources[i].group = resources[j].group) =>
                LET p == positions[resources[i].id]
                    q == positions[resources[j].id]
                IN  /\ p # q
                    /\ (resources[i].group = None /\ p[2] = q[2]) =>
                          \/ p[1] + ICON_CELL_WIDTH <= q[1]
                          \/ q[1] + ICON_CELL_WIDTH <= p[1]

\* two rows of ungrouped resources and a group with two rows of members
C18_Witness ==
    /\ LaidOut
    /\ \E i \in AutoPlaced : \E j \in AutoPlaced :
          /\ resources[i].group = None /\ resources[j].group = None
          /\ positions[resources[i].id][1] = positions[resources[j].id][1]
          /\ positions[resources[i].id][2] < positions[resources[j].id][2]
    /\ \E i \in AutoPlaced : \E j \in AutoPlaced :
          /\ resources[i].group # None /\ resources[i].group = resources[j].group
          /\ positions[resources[i].id][1] = positions[resources[j].id][1]
          /\ positions[resources[i].id][2] < positions[resources[j].id][2]

\* C19: every auto-placed ungrouped cell and every group rectangle has its
\* left edge at START_X or beyond and its right edge at
\* CANVAS_WIDTH + PAGE_MARGIN or before
C19_WithinCanvas ==
    LaidOut =>
        /\ \A i \in AutoPlaced :
              resources[i].group = None =>
                 /\ positions[resources[i].id][1] >= START_X
                 /\ positions[resources[i].id][1] + ICON_CELL_WIDTH
                       <= CANVAS_WIDTH + PAGE_MARGIN
        /\ \A g \in DOMAIN group_bounds :
              /\ GBLeft(g) >= START_X
              /\ GBRight(g) <= CANVAS_WIDTH + PAGE_MARGIN

\* a row of ungrouped cells and a row of groups that each had no room for
\* one more, and the cell and the group that went to the next row
C19_Witness ==
    /\ LaidOut
    /\ \E i \in AutoPlaced : \E j \in AutoPlaced :
          /\ resources[i].group = None /\ resources[j].group = None
          /\ positions[resources[i].id][1] + 2 * ICON_CELL_WIDTH
                > CANVAS_WIDTH + PAGE_MARGIN
          /\ positions[resources[j].id][2] > positions[resources[i].id][2]
    /\ \E g \in DOMAIN group_bounds : \E h \in DOMAIN group_bounds :
          /\ GBRight(g) + GROUP_GAP + group_bounds[h][3] > CANVAS_WIDTH + PAGE_MARGIN
          /\ GBTop(h) > GBTop(g)
          /\ GBLeft(h) = START_X

\* the position of a resource on the page: the origin of its group plus its
\* relative position when it is drawn inside a group
PagePosition(rid) ==
    LET r == resources[CHOOSE i \in DOMAIN resources : resources[i].id = rid]
    IN  IF r.group # None /\ r.group[1] \in DOMAIN group_bounds
        THEN <<GBLeft(r.group[1]) + positions[rid][1], GBTop(r.group[1]) + positions[rid][2]>>
        ELSE positions[rid]

\* C20: a drawn connection leaves its source on the right or left side when
\* |dx| > |dy| (right when dx > 0) and on the bottom or top side when
\* |dy| > |dx| (bottom when dy > 0), dx and dy being the differences of the
\* page positions of target and source
C20_ExitSide ==
    pc = "done" =>
        \A j \in DOMAIN edges :
            LET dx == PagePosition(edges[j].target)[1] - PagePosition(edges[j].source)[1]
                dy == PagePosition(edges[j].target)[2] - PagePosition(edges[j].source)[2]
                adx == IF dx < 0 THEN 0 - dx ELSE dx
                ady == IF dy < 0 THEN 0 - dy ELSE dy
            IN  /\ (adx > ady /\ dx > 0) => edges[j].exit_dir = "right"
                /\ (adx > ady /\ dx <= 0) => edges[j].exit_dir = "left"
                /\ (ady > adx /\ dy > 0) => edges[j].exit_dir = "bottom"
                /\ (ady > adx /\ dy <= 0) => edges[j].exit_dir = "top"

\* a connection from a member of a group to an ungrouped resource above
\* and further to the left, leaving on the left side
C20_Witness ==
    /\ pc = "done"
    /\ \E j \in DOMAIN edges :
          /\ edges[j].exit_dir = "left"
          /\ PagePosition(edges[j].source) # positions[edges[j].source]
          /\ PagePosition(edges[j].target) = positions[edges[j].target]
          /\ PagePosition(edges[j].target)[2] < PagePosition(edges[j].source)[2]

----------------------------------------------------------------------------
(* Properties of the request: validation, unknown connection ends *)

EdgesDrawn == pc = "done" \/ (pc = "returned" /\ file_written)

IsKnown(conn) ==
    conn.source \in ResourceIds(resources) /\ conn.target \in ResourceIds(resources)

KnownIndices ==
    SelectSeq([i \in DOMAIN connections |-> i], LAMBDA i : IsKnown(connections[i]))

UnknownIndices ==
    SelectSeq([i \in DOMAIN connections |-> i], LAMBDA i : ~IsKnown(connections[i]))

\* the edges of the connections with two known ends, routed on their own
EdgesOfKnown ==
    LET kept == [j \in DOMAIN KnownIndices |-> connections[KnownIndices[j]]]
        c == classify_connections(kept, 1, absolute_positions,
                 [dirs |-> <<>>, out |-> EmptyDict, inc |-> EmptyDict])
    IN  draw_edges(kept, 1, ResourceIds(resources), c.dirs, c.out, c.inc)

SameRoute(e, f) ==
    /\ e.source = f.source /\ e.target = f.target
    /\ e.exit_dir = f.exit_dir /\ e.entry_dir = f.entry_dir
    /\ e.exit_spread = f.exit_spread /\ e.entry_spread = f.entry_spread

UnlistedGroup(r) == r.group # None /\ \A g \in DOMAIN groups : groups[g] # r.group[1]

InvalidRequest ==
    \/ resources = <<>>
    \/ \E i, j \in DOMAIN resources : i # j /\ resources[i].id = resources[j].id

\* C22: a request with no resource or with two resources of one id never
\* leaves the validation step except by returning status 'error': nothing
\* of the layout is computed and no file is written; and validation
\* reports an error for exactly these requests.
C22_InvalidRejected ==
    /\ InvalidRequest =>
          /\ pc \in {"generate_drawio_diagram", "returned"}
          /\ graph = EmptyGraph /\ layers = EmptyDict /\ group_resources = EmptyDict
          /\ positions = EmptyDict /\ group_bounds = EmptyDict
          /\ absolute_positions = EmptyDict /\ edges = <<>>
          /\ ~file_written
          /\ pc = "returned" => status = "error"
    /\ pc # "generate_drawio_diagram" => (validation.errors # <<>> <=> InvalidRequest)

C22_Witness ==
    /\ pc = "returned" /\ status = "error"
    /\ resources # <<>> /\ connections # <<>>
    /\ InvalidRequest

----------------------------------------------------------------------------
(* Properties of build_adjacency_graph with repeated connections *)

\* the other ends of the connections with this end, in connection order
TargetsOf(id) ==
    LET from_id == SelectSeq(connections, LAMBDA c : c.source = id)
    IN  [k \in DOMAIN from_id |-> from_id[k].target]

SourcesOf(id) ==
    LET to_id == SelectSeq(connections, LAMBDA c : c.target = id)
    IN  [k \in DOMAIN to_id |-> to_id[k].source]

\* C23: in the graph built from the connections, for every id that is an
\* end of a connection, out_degree is the number of connections with that
\* source and in_degree the number with that target, a repeated connection
\* and a self-loop counted each time, and outgoing / incoming (read with
\* the empty list as default) list the targets / sources once per
\* connection in connection order.
C23_MultiplicityKept ==
    GraphBuilt =>
        \A id \in Endpoints(connections) \cup ResourceIds(resources) :
            /\ Get(graph.out_degree, id, 0) = Len(TargetsOf(id))
            /\ Get(graph.in_degree, id, 0) = Len(SourcesOf(id))
            /\ Get(graph.outgoing, id, <<>>) = TargetsOf(id)
            /\ Get(graph.incoming, id, <<>>) = SourcesOf(id)

C23_Witness ==
    /\ GraphBuilt
    /\ \E i, j \in DOMAIN connections :
          /\ i < j /\ connections[i] = connections[j]
          /\ connections[i].source # connections[i].target
    /\ \E i \in DOMAIN connections : connections[i].source = connections[i].target
    /\ \E id \in DOMAIN graph.outgoing :
          /\ Len(graph.outgoing[id]) = 2
          /\ graph.outgoing[id][1] # graph.outgoing[id][2]

----------------------------------------------------------------------------
(* Properties of calculate_topology_layout *)

TopologyReturned == pc = "grid"

\* C24: in the result of calculate_topology_layout, the list of every group
\* and of the ungrouped resources is order_within_layer applied to the
\* members of that group (no previous-layer order).
C24_OrderedByOrderWithinLayer ==
    TopologyReturned =>
        \A key \in DOMAIN group_resources :
            group_resources[key] =
                order_within_layer(members_of(resources, key), graph.outgoing,
                                   graph.incoming, None)

\* <<hub before non-hub, layer, minus degree>>
OrderKey(r) ==
    <<IF Degree(r.id) >= HUB_CONNECTIVITY_THRESHOLD THEN 0 ELSE 1,
      Get(layers, r.id, 0),
      0 - Degree(r.id)>>

TupleLess(k1, k2) ==
    \E i \in 1..3 : k1[i] < k2[i] /\ \A j \in 1..(i - 1) : k1[j] = k2[j]

\* C28: in the result of calculate_topology_layout the hubs are the
\* resources of degree >= 3, and in every list a resource with a smaller key
\* (hub before non-hub, then layer ascending, then degree descending) stands
\* before one with a larger key, two resources with equal keys standing in
\* their input order.
C28_SortedByTopologyKey ==
    TopologyReturned =>
        /\ DOMAIN hubs = {id \in ResourceIds(resources) :
                             Degree(id) >= HUB_CONNECTIVITY_THRESHOLD}
        /\ \A key \in DOMAIN group_resources :
              LET list == group_resources[key]
              IN  \A i, j \in DOMAIN list :
                      i < j =>
                          /\ ~TupleLess(OrderKey(list[j]), OrderKey(list[i]))
                          /\ OrderKey(list[i]) = OrderKey(list[j]) =>
                                PositionIn(resources, list[i]) < PositionIn(resources, list[j])

\* one list in which a hub, a lower layer and a higher degree each move a
\* resource in front of one that precedes it in the input, and two resources
\* with equal keys
C28_Witness ==
    /\ TopologyReturned
    /\ \E key \in DOMAIN group_resources :
          LET list == group_resources[key]
              Moved(i, j) == i < j /\ PositionIn(resources, list[i]) > PositionIn(resources, list[j])
          IN  /\ \E i, j \in DOMAIN list :
                    Moved(i, j) /\ OrderKey(list[i])[1] < OrderKey(list[j])[1]
              /\ \E i, j \in DOMAIN list :
                    /\ Moved(i, j) /\ OrderKey(list[i])[1] = OrderKey(list[j])[1]
                    /\ OrderKey(list[i])[2] < OrderKey(list[j])[2]
              /\ \E i, j \in DOMAIN list :
                    /\ Moved(i, j) /\ OrderKey(list[i])[1] = OrderKey(list[j])[1]
                    /\ OrderKey(list[i])[2] = OrderKey(list[j])[2]
                    /\ OrderKey(list[i])[3] < OrderKey(list[j])[3]
              /\ \E i, j \in DOMAIN list : i < j /\ OrderKey(list[i]) = OrderKey(list[j])

Listed(group) == group = None \/ \E g \in DOMAIN groups : groups[g] = group[1]

\* C29: in the result of calculate_topology_layout every resource that is
\* ungrouped or in a listed group occurs exactly once, in the list under its
\* own group (None for ungrouped); every key is None or a listed group, no
\* list is empty, and every element of a list is a resource of the input
\* whose group is the key.
C29_Partition ==
    TopologyReturned =>
        /\ \A i \in DOMAIN resources :
              Listed(resources[i].group) =>
                  /\ resources[i].group \in DOMAIN group_resources
                  /\ Occurrences(group_resources[resources[i].group], resources[i]) = 1
        /\ \A key \in DOMAIN group_resources :
              /\ Listed(key)
              /\ group_resources[key] # <<>>
              /\ \A k \in DOMAIN group_resources[key] :
                    /\ \E i \in DOMAIN resources : resources[i] = group_resources[key][k]
                    /\ group_resources[key][k].group = key

C29_Witness ==
    /\ TopologyReturned
    /\ \E i \in DOMAIN resources : ~Listed(resources[i].group)
    /\ \E i \in DOMAIN resources : resources[i].group # None /\ Listed(resources[i].group)
    /\ DOMAIN group_resources # {}

----------------------------------------------------------------------------
(* Properties of the two orderings of order_within_layer *)

OrderReturned == pc = "order_within_layer returned"

HasPrev == prev_layer_order # None /\ prev_layer_order[1] # <<>>

\* the connections into rid from an id of the previous order
EdgesFromPrev(rid) ==
    SelectSeq(connections,
              LAMBDA c : c.target = rid /\ \E j \in DOMAIN prev_layer_order[1] :
                                              prev_layer_order[1][j] = c.source)

FirstIndex(id) ==
    (CHOOSE j \in DOMAIN prev_layer_order[1] :
        /\ prev_layer_order[1][j] = id
        /\ \A k \in 1..(j - 1) : prev_layer_order[1][k] # id) - 1

\* mean index of the previous-order neighbours, or minus the degree
MeanIndex(rid) ==
    LET from_prev == EdgesFromPrev(rid)
    IN  IF from_prev = <<>> THEN <<0 - Degree(rid), 1>>
        ELSE <<SumSeq([k \in DOMAIN from_prev |-> FirstIndex(from_prev[k].source)], 1),
               Len(from_prev)>>

\* C25: with a non-empty previous order, order_within_layer returns the
\* resources in ascending order of their barycenter - the mean index in the
\* previous order of the sources of their incoming connections that are in
\* it, one term per connection, and minus the degree when there is none -
\* with equal barycenters in input order.
C25_AscendingBarycenter ==
    (OrderReturned /\ HasPrev) =>
        /\ Len(layer_order) = Len(resources)
        /\ \A i, j \in DOMAIN layer_order :
              i < j =>
                  /\ ~FracLess(MeanIndex(layer_order[j].id), MeanIndex(layer_order[i].id))
                  /\ FracEq(MeanIndex(layer_order[i].id), MeanIndex(layer_order[j].id)) =>
                        PositionIn(resources, layer_order[i])
                            < PositionIn(resources, layer_order[j])

\* a resource with two neighbours at different indices, a connected
\* resource without a neighbour in the previous order that stands first,
\* and a result that is not the input order
C25_Witness ==
    /\ OrderReturned /\ HasPrev
    /\ \E i \in DOMAIN resources :
          LET from_prev == EdgesFromPrev(resources[i].id)
          IN  Len(from_prev) = 2 /\ from_prev[1].source # from_prev[2].source
    /\ layer_order # <<>>
    /\ EdgesFromPrev(layer_order[1].id) = <<>> /\ Degree(layer_order[1].id) > 0
    /\ layer_order # resources

\* the place, counted from 0, of resource i in the stable descending sort
\* by degree
Rank(i) ==
    Cardinality({j \in DOMAIN resources :
                    \/ Degree(resources[j].id) > Degree(resources[i].id)
                    \/ /\ Degree(resources[j].id) = Degree(resources[i].id)
                       /\ j < i})

\* the index, counted from 0, at which the resource of a rank is returned
MiddleOutIndex(rank, n) ==
    IF rank % 2 = 1 THEN (n \div 2) - ((rank + 1) \div 2)
    ELSE (n \div 2) + (rank \div 2)

\* C26: without a previous order (None or empty), order_within_layer
\* returns the resource of rank 0 in the stable descending sort by degree at
\* index ceil((n-1)/2), those of rank 1, 3, 5, ... to its left going
\* outwards and those of rank 2, 4, 6, ... to its right going outwards, so
\* that degrees do not increase when moving away from it on either side.
C26_MiddleOut ==
    (OrderReturned /\ ~HasPrev) =>
        LET n == Len(resources)
            middle == n \div 2
        IN  /\ Len(layer_order) = n
            /\ 2 * middle >= n - 1 /\ 2 * middle <= n
            /\ \A i \in DOMAIN resources :
                  layer_order[MiddleOutIndex(Rank(i), n) + 1] = resources[i]
            /\ \A i, j \in DOMAIN layer_order :
                  /\ (i < j /\ j <= middle + 1) =>
                        Degree(layer_order[i].id) <= Degree(layer_order[j].id)
                  /\ (middle + 1 <= i /\ i < j) =>
                        Degree(layer_order[i].id) >= Degree(layer_order[j].id)

\* five resources of at least three different degrees
C26_Witness ==
    /\ OrderReturned /\ ~HasPrev
    /\ Len(layer_order) = 5
    /\ Cardinality({Degree(resources[i].id) : i \in DOMAIN resources}) >= 3
    /\ Degree(layer_order[3].id) > Degree(layer_order[2].id)
    /\ Degree(layer_order[3].id) > Degree(layer_order[4].id)

----------------------------------------------------------------------------
(* Properties of the group rectangles *)

MembersOfGroup(g) == {i \in DOMAIN resources : resources[i].group = Some(g)}

\* C27: a group with n >= 1 members has bounds of width
\* 2*GROUP_INTERNAL_PAD + cols*ICON_CELL_WIDTH and height GROUP_TITLE_HEIGHT
\* + 2*GROUP_INTERNAL_PAD + rows*ICON_CELL_HEIGHT, with cols = min(3, n) and
\* rows = ceil(n / cols), and the cell of every auto-placed member lies
\* within the bounds, the padding away from the left, right and bottom edge
\* and the title height plus the padding away from the top edge.
C27_BoundsHoldCells ==
    LaidOut =>
        \A g \in DOMAIN group_bounds :
            LET n == Cardinality(MembersOfGroup(g))
                cols == IF n < 3 THEN n ELSE 3
                width == group_bounds[g][3]
                height == group_bounds[g][4]
            IN  /\ n >= 1
                /\ width = 2 * GROUP_INTERNAL_PAD + cols * ICON_CELL_WIDTH
                /\ \E rows \in 1..n :
                      /\ rows * cols >= n /\ (rows - 1) * cols < n
                      /\ height = GROUP_TITLE_HEIGHT + 2 * GROUP_INTERNAL_PAD
                                      + rows * ICON_CELL_HEIGHT
                /\ \A i \in MembersOfGroup(g) \cap AutoPlaced :
                      LET cell == positions[resources[i].id]
                      IN  /\ cell[1] >= GROUP_INTERNAL_PAD
                          /\ cell[1] + ICON_CELL_WIDTH <= width - GROUP_INTERNAL_PAD
                          /\ cell[2] >= GROUP_TITLE_HEIGHT + GROUP_INTERNAL_PAD
                          /\ cell[2] + ICON_CELL_HEIGHT <= height - GROUP_INTERNAL_PAD

\* a group of four auto-placed members: three columns, two rows
C27_Witness ==
    /\ LaidOut
    /\ \E g \in DOMAIN group_bounds :
          /\ Cardinality(MembersOfGroup(g)) = 4
          /\ MembersOfGroup(g) \subseteq AutoPlaced
          /\ \E i \in MembersOfGroup(g) :
                positions[resources[i].id][2] > GROUP_TITLE_HEIGHT + GROUP_INTERNAL_PAD

\* the pairs <<exit side, entry side>> of opposite sides
OppositeSides == {<<"right", "left">>, <<"left", "right">>,
                  <<"bottom", "top">>, <<"top", "bottom">>}

\* C30: every connection is classified with an entry side opposite to its
\* exit side, and a connection between two shapes whose |dx| equals |dy| -
\* a self-loop and two shapes at one place included - leaves through the
\* bottom and enters through the top when dy > 0, and leaves through the top
\* and enters through the bottom when dy <= 0.
C30_OppositeAndTies ==
    pc = "done" =>
        /\ \A i \in DOMAIN connection_directions :
              connection_directions[i] \in OppositeSides
        /\ \A j \in DOMAIN edges :
              LET dx == PagePosition(edges[j].target)[1] - PagePosition(edges[j].source)[1]
                  dy == PagePosition(edges[j].target)[2] - PagePosition(edges[j].source)[2]
              IN  /\ <<edges[j].exit_dir, edges[j].entry_dir>> \in OppositeSides
                  /\ (dx = dy \/ dx = 0 - dy) =>
                        edges[j].exit_dir = IF dy > 0 THEN "bottom" ELSE "top"

\* a self-loop, leaving through the top and entering through the bottom
C30_Witness ==
    /\ pc = "done"
    /\ \E j \in DOMAIN edges :
          /\ edges[j].source = edges[j].target
          /\ edges[j].exit_dir = "top" /\ edges[j].entry_dir = "bottom"

====
